---- MODULE Spec2Model ----
(***************************************************************************)
(* A model of one invocation of RoomInfo.get (src/utils/RoomInfo.py):      *)
(* login (get_dynamic_js, create_js_context, the target page, the          *)
(* credential POST), follow_redirects, and the batch query.  The portal is *)
(* the environment: every response (status, Location header, page          *)
(* content, cookie, JSON body) is chosen nondeterministically.             *)
(*                                                                         *)
(* A URL or a Location value is modelled as the list of its '/'-separated  *)
(* segments, i.e. the value of Python's s.split('/'):                      *)
(*   "https://idas.uestc.edu.cn/a"  is  <<"https:","","idas.uestc.edu.cn","a">> *)
(*   "/a/b" is <<"","a","b">>   and   "a/b" is <<"a","b">>.                *)
(* An exception is modelled as its cause chain, outermost error first,     *)
(* each link being <<class, message, argument>>.  The messages of the      *)
(* source are Chinese texts; the model names them by ASCII tokens, given   *)
(* with the source line that raises them.                                  *)
(***************************************************************************)
EXTENDS Integers, Sequences, FiniteSets, TLC

VARIABLES
    scenario,         \* which repertoire of answers the portal has in this run
    invocation,       \* the number of the current invocation of get
    discarded,        \* the cookies of the sessions of earlier invocations
    password,         \* self.PASSWORD
    pc,               \* position of the invocation of get
    queries,          \* the argument of get
    js_ctx,           \* login: the compiled script, <<>> before
    soup,             \* login: the input tags of the target page, in order
    payload,          \* login: <<the payload>> once built, <<>> before
    batch_status,     \* status code of the batch POST's response, 0 if none
    cookies,          \* session.cookies of the session login created
    log,              \* every network request issued so far, in order
    login_status,     \* status code of the credential POST's response, 0 if none
    start_url,        \* follow_redirects: its start_url argument
    current_url,      \* follow_redirects: current_url
    redirect_count,   \* follow_redirects: redirect_count
    redirect_history, \* follow_redirects: redirect_history
    final_response,   \* what follow_redirects / login returned, <<>> if nothing
    loginState,       \* "running", "RedirectResolved" or "Failed"
    loginErr,         \* the error login raised (cause chain), <<>> if none
    err,              \* the error get raised (cause chain), <<>> if none
    failClass,        \* which failure made the invocation raise, "" if none
    response_list,    \* get: <<response.json()>> once it is a list, else <<>>
    result,           \* the list get returned
    mpc,              \* main: position of the main thread, "idle" if main is not run
    config,           \* main: the "queries" list of the configuration
    check_interval,   \* main: the configured check_interval
    results,          \* main: <<what room_info.get returned>>, <<>> before
    alert_rooms,      \* main: alert_rooms
    tasks,            \* main: the tasks submitted to the thread pool, in order
    cycle_error,      \* main: where the current cycle raised, "" if it did not
    workers,          \* main: the number of workers of the thread pool
    lpc,              \* Logger: the line each thread is at, "idle" if not run
    called,           \* Logger: what each thread called, Logger or get_logger
    lock,             \* Logger._lock: the thread that holds it, 0 if free
    instance,         \* Logger._instance: <<>> for None, else <<its attributes>>
    created,          \* Logger: how many objects line 16 has created
    init_runs,        \* Logger: how often the body of __init__ was entered
    handlers,         \* Logger: the handlers of the logging logger, in order
    returned,         \* Logger: what each thread's call returned, <<>> before
    rpc,              \* reporter: position of StatisticsReporter.run, "idle" if not run
    rooms,            \* reporter: the number of entries of "queries"
    state_file,       \* reporter: per room, whether the state file holds a
                      \* last-report time within the interval ("recent") or not
    state,            \* reporter: the state dict of the current pass
    room_data,        \* reporter: per room, the data points the logs hold
    room,             \* reporter: the entry the for loop is at
    attempted         \* reporter: the rooms send_email was called for in this pass

\* the variables of one invocation of RoomInfo.get
getVars == <<scenario, invocation, discarded, password, pc, queries, js_ctx,
             soup, payload, batch_status, cookies, log, login_status, start_url,
             current_url, redirect_count, redirect_history, final_response,
             loginState, loginErr, err, failClass, response_list, result>>

\* the variables of main
mainVars == <<mpc, config, check_interval, results, alert_rooms, tasks,
              cycle_error, workers>>

\* the variables of the Logger singleton
loggerVars == <<lpc, called, lock, instance, created, init_runs, handlers,
                returned>>

\* the variables of the statistics reporter
reportVars == <<rpc, rooms, state_file, state, room_data, room, attempted>>

vars == <<getVars, mainVars, loggerVars, reportVars>>

----------------------------------------------------------------------------
(* Bounds of the model *)

\* longest identifier list given to get
MaxQueries == 2

\* the max_redirects argument of follow_redirects.  login calls it with the
\* default (10, RoomInfo.py line 81); the model walks a smaller value and
\* every formula below is stated in terms of max_redirects.
max_redirects == 3

\* the server may answer with more entries than were asked for
MaxResponse == MaxQueries + 1

\* most input tags on the login target page
MaxInputs == 3

\* most invocations of get in one run
MaxInvocations == 2

\* threads that make their first call to Logger() or get_logger() at once
NumThreads == 2

Threads == 1..NumThreads

Min(a, b) == IF a < b THEN a ELSE b

----------------------------------------------------------------------------
(* Inputs and the environment's choices *)

RoomIds == {"A", "B"}

QueryLists == UNION {[1..n -> RoomIds] : n \in 0..MaxQueries}

\* an absent JSON key / dict entry is <<>>, a present value v is <<v>>
Retcodes == {<<>>, <<0>>, <<1>>}
Syjes == {<<5>>, <<50>>}

EmptyInfo == [retcode |-> <<>>, syje |-> <<>>]

\* one entry of the response array: a dict whose roomInfo is a dict ("obj"),
\* a dict without a roomInfo key ("absent"), or a dict whose roomInfo is
\* null ("null")
Items ==
    {[shape |-> "obj", info |-> [retcode |-> r, syje |-> s]] :
        r \in Retcodes, s \in Syjes}
    \cup {[shape |-> "absent", info |-> EmptyInfo],
          [shape |-> "null", info |-> EmptyInfo]}

ResponseLists == UNION {[1..n -> Items] : n \in 0..MaxResponse}

RedirectCodes == {301, 302, 303, 307, 308}

\* statuses the portal answers a page or hop GET with
GetStatuses == {200, 302, 304, 404}
\* statuses the portal answers the credential POST with
PostStatuses == {200, 302, 307, 401, 500}
\* statuses of the pages fetched with automatic redirects and of the batch POST
PageStatuses == {200, 500}

BASE_URL == <<"https:", "", "idas.uestc.edu.cn">>
OTHER_ORIGIN == <<"http:", "", "portal.uestc.edu.cn:8080">>

NoLocation == <<>>
LocAbsBase == BASE_URL \o <<"authserver", "login">>
LocAbsOther == OTHER_ORIGIN \o <<"app">>
LocSlash == <<"", "a", "b">>
LocRel == <<"a", "b">>
Locations == {LocAbsBase, LocAbsOther, LocSlash, LocRel}

CookieNames == {"CASTGC"}

\* A string that is put together from others is the sequence of its parts:
\* "" is <<>>, "pw" is <<"pw">>, "pw" + "xyz" is <<"pw", "xyz">>.
USERNAME == <<"user">>
Passwords == {<<"pw">>, <<"qq">>}

\* the default salt of login line 172
FALLBACK_SALT == <<"rjBFAaHsNkKAhpoi">>

\* an <input> tag of the login target page; a name or id the tag does not
\* have is ""; every tag of the model has a value attribute
Tag(type, name, id, value) ==
    [type |-> type, name |-> name, id |-> id, value |-> value]

Tags ==
    {Tag("hidden", "execution", "", <<"e1">>),
     Tag("hidden", "execution", "", <<"e2">>),
     Tag("hidden", "", "pwdEncryptSalt", <<"xyz">>),
     Tag("hidden", "rmShown", "", <<"1">>),
     Tag("hidden", "rmShown", "", <<"2">>),
     Tag("hidden", "password", "", <<"evil">>),
     Tag("text", "username", "", <<"x">>)}

\* the scripts the portal may serve: encryptPassword(p, s) returns p + s, or
\* s + p, or the script defines no encryptPassword
Scripts == {"p+s", "s+p", "nofunc"}

\* The portal's repertoire.  In scenario "walk" the redirect chain, the
\* identifier list and the batch answer vary and the login target page is
\* plain; in scenario "page" the page, the script, the password and the
\* batch status vary and the redirect chain is plain.
EnvPages(sc) ==
    IF sc = "walk"
    THEN {<<>>, <<Tag("hidden", "execution", "", <<"e1">>)>>}
    ELSE UNION {[1..n -> Tags] : n \in 0..MaxInputs}

EnvScripts(sc) == IF sc = "walk" THEN {"p+s", "nofunc"} ELSE Scripts

EnvPasswords(sc) == IF sc = "walk" THEN {<<"pw">>} ELSE Passwords

EnvQueries(sc) ==
    IF sc = "walk" THEN QueryLists ELSE {<<"A", "B">>}

EnvLocations(sc) == IF sc = "walk" THEN Locations ELSE {LocAbsBase}

EnvGetStatuses(sc) == IF sc = "walk" THEN GetStatuses ELSE {200, 302}

EnvPostStatuses(sc) == IF sc = "walk" THEN PostStatuses ELSE {200, 302}

\* final statuses of the batch POST: requests follows redirects itself, and
\* hands back a 3xx answer it cannot follow (300, 304, no Location)
EnvBatchStatuses(sc) == IF sc = "walk" THEN {200, 500} ELSE {200, 300, 500}

EnvResponses(sc) ==
    IF sc = "walk" THEN ResponseLists
    ELSE {<<>>, <<[shape |-> "obj", info |-> [retcode |-> <<0>>, syje |-> <<5>>]]>>}

----------------------------------------------------------------------------
(* Exceptions *)

\* RuntimeError(msg)
RuntimeError(msg) == <<"RuntimeError", msg, 0>>

\* requests.exceptions.RequestException subclasses
ConnectionError == <<"ConnectionError", "", 0>>
MissingSchema == <<"MissingSchema", "", 0>>
HTTPError(status) == <<"HTTPError", "", status>>
RequestExceptions == {"ConnectionError", "MissingSchema", "HTTPError",
                      "JSONDecodeError"}

\* a faulty variant of RaiseFrom: the cause is dropped
RaiseWithoutCause(e, cause) == <<e>>

\* raise e from cause
RaiseFrom(e, cause) == <<e>> \o cause

\* the exception class of a raised error: what `except <Class>` tests
Kind(chain) == chain[1][1]

\* login line 208: RuntimeError("login failed, status code: <status>")
ErrLoginStatus(status) == <<<<"RuntimeError", "LoginFailedStatus", status>>>>

\* login line 224: `except RequestException as e` around the credential POST
ErrLoginRequest(e) == RaiseFrom(RuntimeError("LoginRequestFailed"), <<e>>)

\* login line 212
ErrLoginNoLocation == <<RuntimeError("LoginNoLocation")>>

\* login line 178: `except Exception as e` around the preparation of the login
ErrLoginInit(cause) == RaiseFrom(RuntimeError("LoginInitFailed"), cause)

\* get_dynamic_js line 48: a request of get_dynamic_js failed
ErrJsRequest(e) == RaiseFrom(RuntimeError("JsRequestFailed"), <<e>>)

\* get_dynamic_js lines 38 and 50: no matching script tag; the RuntimeError
\* of line 38 is raised inside the try and caught by `except Exception`
ErrJsNotFound ==
    RaiseFrom(RuntimeError("JsFetchError"), <<RuntimeError("JsNotFound")>>)

\* create_js_context line 78
ErrJsCompile ==
    RaiseFrom(RuntimeError("JsCompileError"), <<<<"ProgramError", "", 0>>>>)

\* login line 167
ErrNoExecution == <<<<"ValueError", "NoExecution", 0>>>>

\* login line 176: js_ctx.call raises
ErrEncrypt == <<<<"ProgramError", "", 0>>>>

\* follow_redirects line 132
ErrRedirectRequest(e) == RaiseFrom(RuntimeError("RedirectRequestFailed"), <<e>>)

\* follow_redirects line 126
ErrRedirectNoLocation == <<RuntimeError("RedirectNoLocation")>>

\* follow_redirects line 135
ErrTooManyRedirects == <<<<"RuntimeError", "TooManyRedirects", max_redirects>>>>

\* get line 238
ErrNoSession == <<RuntimeError("NoSession")>>

\* get lines 273-276: an error raised inside get's try block is wrapped by
\* the first matching except clause
WrapGet(chain) ==
    IF Kind(chain) \in RequestExceptions
    THEN RaiseFrom(RuntimeError("QueryRequestFailed"), chain)
    ELSE RaiseFrom(RuntimeError("QueryError"), chain)

----------------------------------------------------------------------------
(* login: the pure parts *)

\* soup.find('input', {attr: v}): the first input tag whose attribute attr
\* is v, <<>> if there is none
Find(page, attr, v) ==
    LET hits == {i \in 1..Len(page) : page[i][attr] = v}
    IN  IF hits = {} THEN <<>>
        ELSE <<page[CHOOSE i \in hits : \A j \in hits : i <= j]>>

\* a faulty variant of HasExecution: the page is taken to carry the token
HasExecutionAlways(page) == TRUE

\* login lines 165-166: `if not execution` is false for a tag that was found
HasExecution(page) == Find(page, "name", "execution") # <<>>

\* login line 168; '' when the page has no such input
ExecutionOf(page) ==
    IF Find(page, "name", "execution") = <<>> THEN <<>>
    ELSE Find(page, "name", "execution")[1].value

\* a faulty variant of SaltOf: the salt on the page is not read
SaltIgnored(page) == FALLBACK_SALT

\* login lines 171-172
SaltOf(page) ==
    IF Find(page, "id", "pwdEncryptSalt") = <<>> THEN FALLBACK_SALT
    ELSE Find(page, "id", "pwdEncryptSalt")[1].value

\* a faulty variant of CallRaises: a script without encryptPassword is called
\* all the same
CallNeverRaises(script) == FALSE

\* login line 176: js_ctx.call raises when the script defines no
\* encryptPassword
CallRaises(script) == script = "nofunc"

\* login line 176: what the script's encryptPassword(p, s) returns
Encrypt(script, p, s) == IF script = "s+p" THEN s \o p ELSE p \o s

SeededKeys ==
    {"username", "password", "captcha", "_eventId", "cllt", "dllt", "lt",
     "execution"}

\* login lines 181-190
Seed(encrypted_pwd, execution) ==
    [k \in SeededKeys |->
        CASE k = "username" -> USERNAME
          [] k = "password" -> encrypted_pwd
          [] k = "captcha" -> <<>>
          [] k = "_eventId" -> <<"submit">>
          [] k = "cllt" -> <<"userNameLogin">>
          [] k = "dllt" -> <<"generalLogin">>
          [] k = "lt" -> <<>>
          [] k = "execution" -> execution]

\* payload[name] = value
SetKey(pl, name, value) ==
    [k \in DOMAIN pl \cup {name} |-> IF k = name THEN value ELSE pl[k]]

\* a faulty variant of AddHidden: a hidden input overwrites the key it names
RECURSIVE AddHiddenOverwriting(_, _)
AddHiddenOverwriting(pl, tags) ==
    IF tags = <<>> THEN pl
    ELSE AddHiddenOverwriting(
            IF Head(tags).type = "hidden" /\ Head(tags).name # ""
            THEN SetKey(pl, Head(tags).name, Head(tags).value)
            ELSE pl,
            Tail(tags))

\* login lines 193-196: the loop over soup.select('input[type="hidden"]')
RECURSIVE AddHidden(_, _)
AddHidden(pl, tags) ==
    IF tags = <<>> THEN pl
    ELSE AddHidden(
            IF /\ Head(tags).type = "hidden"
               /\ Head(tags).name # ""
               /\ Head(tags).name \notin DOMAIN pl
            THEN SetKey(pl, Head(tags).name, Head(tags).value)
            ELSE pl,
            Tail(tags))

\* login lines 168-196
BuildPayload(page, script, pw) ==
    AddHidden(Seed(Encrypt(script, pw, SaltOf(page)), ExecutionOf(page)), page)

\* a faulty variant of NewSession: the jar of the previous login is kept
ReuseSession(jar) == jar

\* login line 145: requests.Session() has an empty cookie jar, whatever the
\* jar of the previous login held
NewSession(jar) == {}

\* a cookie the portal sets during a login belongs to that login's session
Stamp(names, inv) == {<<c, inv>> : c \in names}

\* a faulty variant of HasLocation: the header is taken to be there
HasLocationAlways(location) == TRUE

\* follow_redirects line 114 and login line 211: 'Location' in headers
HasLocation(location) == location # NoLocation

----------------------------------------------------------------------------
(* follow_redirects: the pure parts *)

\* location.startswith('http'): the segments of the model that begin with
\* the letters http are the two schemes
StartsWithHttp(s) == Len(s) >= 1 /\ s[1] \in {"http:", "https:"}

\* location.startswith('/')
StartsWithSlash(s) == Len(s) >= 2 /\ s[1] = ""

\* '/'.join(current_url.split('/')[:3])
BaseOf(url) == SubSeq(url, 1, Min(3, Len(url)))

\* a faulty variant of ResolveLocation: a relative value is resolved against the
\* portal origin instead of the current URL's origin
ResolveAgainstPortal(location, url) ==
    IF StartsWithHttp(location) THEN location
    ELSE IF StartsWithSlash(location) THEN BASE_URL \o Tail(location)
    ELSE BASE_URL \o location

\* lines 116-124: the next URL from the Location header and current_url.
\* BASE_URL + "/x/y" has the segments of BASE_URL followed by x, y;
\* base_url + '/' + location has the segments of base_url followed by those
\* of location.
ResolveLocation(location, url) ==
    IF StartsWithHttp(location) THEN location
    ELSE IF StartsWithSlash(location) THEN BASE_URL \o Tail(location)
    ELSE BaseOf(url) \o location

\* a faulty variant of LoopCond: the bound is checked two hops late
LoopCondLate(count) == count < max_redirects + 2

\* line 96: while redirect_count < max_redirects
LoopCond(count) == count < max_redirects

\* requests sends a GET only to a URL with an http(s) scheme and a host;
\* otherwise session.get raises MissingSchema / InvalidURL
Requestable(url) ==
    /\ Len(url) >= 3
    /\ url[1] \in {"http:", "https:"}
    /\ url[2] = ""
    /\ url[3] # ""

\* lines 103-108: one entry of redirect_history
HopEntry(url, status, location, jar) ==
    [url |-> url, status |-> status, location |-> location, cookies |-> jar]

\* a faulty variant of RecordHop: only redirect responses are recorded
RecordRedirectsOnly(history, entry) ==
    IF entry.status \in RedirectCodes THEN Append(history, entry) ELSE history

\* line 103: redirect_history.append(...), before the status is looked at
RecordHop(history, entry) == Append(history, entry)

----------------------------------------------------------------------------
(* get: the pure parts *)

\* str(query): the identifiers are strings (Config.py line 76), which str
\* returns unchanged
Str(q) == q

\* room_info.get('retcode') == 0
RetcodeIsZero(info) == info.retcode = <<0>>

\* item.get('roomInfo', {}) for the entries this is defined on
RoomInfoOf(item) == IF item.shape = "obj" THEN item.info ELSE EmptyInfo

\* a faulty variant of RoomResult: only an explicit non-zero retcode is a failure
RoomResultLenient(q, item) ==
    IF RoomInfoOf(item).retcode # <<1>>
    THEN <<Str(q), <<RoomInfoOf(item)>>>>
    ELSE <<Str(q), <<>>>>

\* lines 262-269: the pair emitted for one (query, item); <<>> is None
RoomResult(q, item) ==
    IF RetcodeIsZero(RoomInfoOf(item))
    THEN <<Str(q), <<RoomInfoOf(item)>>>>
    ELSE <<Str(q), <<>>>>

\* line 261: zip(queries, response_list) stops at the shorter of the two
ZipLen(qs, resp) == Min(Len(qs), Len(resp))

\* lines 261-262: None.get raises AttributeError at the first null roomInfo
\* among the zipped pairs
ZipRaises(qs, resp) == \E i \in 1..ZipLen(qs, resp) : resp[i].shape = "null"

\* lines 259-271
ZipResults(qs, resp) == [i \in 1..ZipLen(qs, resp) |-> RoomResult(qs[i], resp[i])]

\* a faulty variant of BatchRequests: one POST per identifier
BatchFanOut(qs) == [i \in 1..Len(qs) |-> "POST_batch"]

\* lines 241-255: the requests get makes for the identifiers: one POST whose
\* roomIds field lists them all
BatchRequests(qs) == <<"POST_batch">>

----------------------------------------------------------------------------
(* The state machine *)

\* response.raise_for_status() raises HTTPError
IsHttpError(status) == status >= 400 /\ status < 600

\* bool(response) is response.ok: raise_for_status() would not raise
ResponseTruthy(resp) == ~IsHttpError(resp.status)

Req(kind, ok) == [req |-> kind, ok |-> ok]

FailClassOf(e) == IF e[1] = "HTTPError" THEN "http_error" ELSE "transport"

\* the statistics reporter is not run
ReportAtRest ==
    /\ rpc = "idle"
    /\ rooms = 0
    /\ state_file = <<>>
    /\ state = <<>>
    /\ room_data = <<>>
    /\ room = 0
    /\ attempted = {}

\* no thread is in Logger
LoggerAtRest ==
    /\ lpc = [th \in Threads |-> "idle"]
    /\ called = [th \in Threads |-> "get_logger"]
    /\ lock = 0
    /\ instance = <<>>
    /\ created = 0
    /\ init_runs = 0
    /\ handlers = <<>>
    /\ returned = [th \in Threads |-> <<>>]

\* main is not run
MainAtRest ==
    /\ mpc = "idle"
    /\ config = <<>>
    /\ check_interval = 0
    /\ results = <<>>
    /\ alert_rooms = <<>>
    /\ tasks = <<>>
    /\ cycle_error = ""
    /\ workers = 0

\* the state when get is entered for the first time, under repertoire sc
Entry(sc) ==
    /\ scenario = sc
    /\ invocation = 1
    /\ discarded = {}
    /\ password \in EnvPasswords(sc)
    /\ pc = "start"
    /\ queries \in EnvQueries(sc)
    /\ js_ctx = <<>>
    /\ soup = <<>>
    /\ payload = <<>>
    /\ batch_status = 0
    /\ cookies = NewSession({})
    /\ log = <<>>
    /\ login_status = 0
    /\ start_url = <<>>
    /\ current_url = <<>>
    /\ redirect_count = 0
    /\ redirect_history = <<>>
    /\ final_response = <<>>
    /\ loginState = "running"
    /\ loginErr = <<>>
    /\ err = <<>>
    /\ failClass = ""
    /\ response_list = <<>>
    /\ result = <<>>
    /\ MainAtRest
    /\ LoggerAtRest
    /\ ReportAtRest

Init == Entry("walk")

InitLogin == Entry("page")

\* what an invocation of get does not change: its arguments and the sessions
\* of earlier invocations
CallUnchanged ==
    UNCHANGED <<scenario, invocation, discarded, password, queries, mainVars,
                loggerVars, reportVars>>

\* a faulty variant of LoginFails: the error is swallowed and login returns
LoginSwallows(chain, class) ==
    /\ pc' = "logged_in"
    /\ loginState' = "RedirectResolved"
    /\ loginErr' = <<>>
    /\ err' = <<>>
    /\ failClass' = ""

\* login raises `chain`; get's `except Exception` (line 275) wraps it
LoginFails(chain, class) ==
    /\ pc' = "raised"
    /\ loginState' = "Failed"
    /\ loginErr' = chain
    /\ err' = WrapGet(chain)
    /\ failClass' = class

\* get raises `chain` after login returned
GetFails(chain, class) ==
    /\ pc' = "raised"
    /\ err' = chain
    /\ failClass' = class
    /\ UNCHANGED <<loginState, loginErr>>

NoError == UNCHANGED <<loginState, loginErr, err, failClass>>

WalkerUnchanged ==
    UNCHANGED <<start_url, current_url, redirect_count, redirect_history,
                final_response>>

\* get_dynamic_js lines 31-38: GET LOGIN_URL and look for the script tag
GetLoginPage ==
    /\ pc = "start"
    /\ \E ok \in BOOLEAN, status \in PageStatuses, hasScript \in BOOLEAN,
          setc \in SUBSET CookieNames :
        /\ log' = Append(log, Req("GET_login", ok /\ ~IsHttpError(status)))
        /\ cookies' = IF ok THEN cookies \cup Stamp(setc, invocation) ELSE cookies
        /\ IF ~ok
           THEN LoginFails(ErrLoginInit(ErrJsRequest(ConnectionError)), "transport")
           ELSE IF IsHttpError(status)
           THEN LoginFails(ErrLoginInit(ErrJsRequest(HTTPError(status))), "http_error")
           ELSE IF ~hasScript
           THEN LoginFails(ErrLoginInit(ErrJsNotFound), "missing_script")
           ELSE pc' = "js" /\ NoError
    /\ WalkerUnchanged
    /\ CallUnchanged
    /\ UNCHANGED <<js_ctx, soup, payload, batch_status, login_status,
                   response_list, result>>

\* get_dynamic_js lines 40-46 and create_js_context lines 62-78: GET the
\* script, then compile it in the default environment and, if that fails, in
\* Node
GetScript ==
    /\ pc = "js"
    /\ \E ok \in BOOLEAN, status \in PageStatuses, dflt \in BOOLEAN,
          node \in BOOLEAN, script \in EnvScripts(scenario),
          setc \in SUBSET CookieNames :
        /\ log' = Append(log, Req("GET_js", ok /\ ~IsHttpError(status)))
        /\ cookies' = IF ok THEN cookies \cup Stamp(setc, invocation) ELSE cookies
        /\ IF ~ok
           THEN LoginFails(ErrLoginInit(ErrJsRequest(ConnectionError)), "transport")
           ELSE IF IsHttpError(status)
           THEN LoginFails(ErrLoginInit(ErrJsRequest(HTTPError(status))), "http_error")
           ELSE IF ~dflt /\ ~node
           THEN LoginFails(ErrLoginInit(ErrJsCompile), "compile")
           ELSE pc' = "target" /\ NoError
        /\ js_ctx' = IF ok /\ ~IsHttpError(status) /\ (dflt \/ node)
                     THEN <<script>> ELSE js_ctx
    /\ WalkerUnchanged
    /\ CallUnchanged
    /\ UNCHANGED <<soup, payload, batch_status, login_status, response_list,
                   result>>

\* login lines 160-198: GET TARGET_URL, extract execution and the salt,
\* encrypt the password, build the payload
GetTargetPage ==
    /\ pc = "target"
    /\ \E ok \in BOOLEAN, status \in PageStatuses,
          page \in EnvPages(scenario), setc \in SUBSET CookieNames :
        /\ log' = Append(log, Req("GET_target", ok /\ ~IsHttpError(status)))
        /\ cookies' = IF ok THEN cookies \cup Stamp(setc, invocation) ELSE cookies
        /\ IF ~ok
           THEN LoginFails(ErrLoginInit(<<ConnectionError>>), "transport")
           ELSE IF IsHttpError(status)
           THEN LoginFails(ErrLoginInit(<<HTTPError(status)>>), "http_error")
           ELSE IF ~HasExecution(page)
           THEN LoginFails(ErrLoginInit(ErrNoExecution), "missing_execution")
           ELSE IF CallRaises(js_ctx[1])
           THEN LoginFails(ErrLoginInit(ErrEncrypt), "encrypt")
           ELSE pc' = "post" /\ NoError
        /\ soup' = IF ok /\ ~IsHttpError(status) THEN <<page>> ELSE soup
        /\ payload' =
              IF /\ ok
                 /\ ~IsHttpError(status)
                 /\ HasExecution(page)
                 /\ ~CallRaises(js_ctx[1])
              THEN <<BuildPayload(page, js_ctx[1], password)>>
              ELSE payload
    /\ WalkerUnchanged
    /\ CallUnchanged
    /\ UNCHANGED <<js_ctx, batch_status, login_status, response_list, result>>

\* login lines 202-218: the credential POST of the payload, up to the call
\* of follow_redirects with the Location header as it came; the script, the
\* page and the payload are not read again and are dropped here
PostCredentials ==
    /\ pc = "post"
    /\ \E ok \in BOOLEAN, status \in EnvPostStatuses(scenario),
          location \in EnvLocations(scenario) \cup {NoLocation},
          setc \in SUBSET CookieNames :
        /\ log' = Append(log, Req("POST_login", ok /\ ~IsHttpError(status)))
        /\ cookies' = IF ok THEN cookies \cup Stamp(setc, invocation) ELSE cookies
        /\ login_status' = IF ok THEN status ELSE 0
        /\ IF ~ok
           THEN LoginFails(ErrLoginRequest(ConnectionError), "transport")
                /\ WalkerUnchanged
           ELSE IF IsHttpError(status)
           THEN LoginFails(ErrLoginRequest(HTTPError(status)), "non_redirect_login")
                /\ WalkerUnchanged
           ELSE IF status \notin RedirectCodes
           THEN LoginFails(ErrLoginStatus(status), "non_redirect_login")
                /\ WalkerUnchanged
           ELSE IF ~HasLocation(location)
           THEN LoginFails(ErrLoginNoLocation, "missing_location")
                /\ WalkerUnchanged
           ELSE /\ start_url' = location
                /\ current_url' = location
                /\ redirect_count' = 0
                /\ redirect_history' = <<>>
                /\ final_response' = <<>>
                /\ IF LoopCond(0)
                   THEN pc' = "walk" /\ NoError
                   ELSE LoginFails(ErrTooManyRedirects, "too_many_redirects")
    /\ js_ctx' = <<>>
    /\ soup' = <<>>
    /\ payload' = <<>>
    /\ CallUnchanged
    /\ UNCHANGED <<batch_status, response_list, result>>

\* a faulty variant of HopFailed: the failed GET is issued again
HopFailedRetry(e) ==
    /\ pc' = "walk"
    /\ NoError
    /\ WalkerUnchanged

\* a faulty variant of HopFailed: the failed GET leaves an entry in the history
HopFailedRecorded(e) ==
    /\ LoginFails(ErrRedirectRequest(e), FailClassOf(e))
    /\ redirect_history' =
          Append(redirect_history, HopEntry(current_url, e[3], NoLocation, cookies))
    /\ UNCHANGED <<start_url, current_url, redirect_count, final_response>>

\* follow_redirects lines 131-132: a failed GET raises at once
HopFailed(e) ==
    /\ LoginFails(ErrRedirectRequest(e), FailClassOf(e))
    /\ WalkerUnchanged

\* follow_redirects lines 96-135: one iteration of the loop and the test of
\* the loop condition that follows it
FollowHop ==
    /\ pc = "walk"
    /\ \E ok \in BOOLEAN, status \in EnvGetStatuses(scenario),
          loc \in EnvLocations(scenario) \cup {NoLocation},
          setc \in SUBSET CookieNames :
        LET sendable == Requestable(current_url)
            answered == sendable /\ ok
            location == IF status \in RedirectCodes THEN loc ELSE NoLocation
            jar == IF answered THEN cookies \cup Stamp(setc, invocation) ELSE cookies
            entry == HopEntry(current_url, status, location, jar)
        IN  /\ log' = Append(log, Req("GET_hop", answered /\ ~IsHttpError(status)))
            /\ cookies' = jar
            /\ IF ~sendable THEN HopFailed(MissingSchema)
               ELSE IF ~ok THEN HopFailed(ConnectionError)
               ELSE IF IsHttpError(status) THEN HopFailed(HTTPError(status))
               ELSE /\ redirect_history' = RecordHop(redirect_history, entry)
                    /\ start_url' = start_url
                    /\ IF status \in RedirectCodes
                       THEN /\ redirect_count' = redirect_count + 1
                            /\ final_response' = <<>>
                            /\ IF ~HasLocation(location)
                               THEN /\ current_url' = current_url
                                    /\ LoginFails(ErrRedirectNoLocation,
                                                  "missing_location")
                               ELSE /\ current_url' =
                                          ResolveLocation(location, current_url)
                                    /\ IF LoopCond(redirect_count + 1)
                                       THEN pc' = "walk" /\ NoError
                                       ELSE LoginFails(ErrTooManyRedirects,
                                                       "too_many_redirects")
                       ELSE /\ redirect_count' = redirect_count
                            /\ current_url' = current_url
                            /\ final_response' =
                                  <<[status |-> status, url |-> current_url]>>
                            /\ pc' = "logged_in"
                            /\ loginState' = "RedirectResolved"
                            /\ UNCHANGED <<loginErr, err, failClass>>
    /\ CallUnchanged
    /\ UNCHANGED <<js_ctx, soup, payload, batch_status, login_status,
                   response_list, result>>

\* a faulty variant of SessionValid: whatever login returned is accepted
SessionAlwaysValid(resp, jar) == TRUE

\* get line 237: `if not final_response or not cookies`
SessionValid(resp, jar) ==
    /\ resp # <<>>
    /\ ResponseTruthy(resp[1])
    /\ jar # {}

\* get lines 235-238: login has returned; redirect_history and
\* final_response are not read again and are dropped here
CheckSession ==
    /\ pc = "logged_in"
    /\ IF SessionValid(final_response, cookies)
       THEN pc' = "query" /\ NoError
       ELSE GetFails(WrapGet(ErrNoSession), "no_session")
    /\ start_url' = <<>>
    /\ current_url' = <<>>
    /\ redirect_count' = 0
    /\ redirect_history' = <<>>
    /\ final_response' = <<>>
    /\ CallUnchanged
    /\ UNCHANGED <<js_ctx, soup, payload, batch_status, cookies, log,
                   login_status, response_list, result>>

\* the statuses of the portal's repertoire that raise_for_status accepts
AcceptedBatchStatuses(sc) == {s \in EnvBatchStatuses(sc) : ~IsHttpError(s)}

\* get lines 250-256: the batch POST fails (transport failure or a status
\* raise_for_status raises for)
BatchRequestFails ==
    /\ pc = "query"
    /\ \E e \in {ConnectionError} \cup
                {HTTPError(s) : s \in EnvBatchStatuses(scenario)
                                       \ AcceptedBatchStatuses(scenario)} :
        /\ log' = log \o [i \in 1..Len(BatchRequests(queries)) |->
                            Req(BatchRequests(queries)[i], FALSE)]
        /\ batch_status' = e[3]
        /\ GetFails(WrapGet(<<e>>), FailClassOf(e))
    /\ WalkerUnchanged
    /\ CallUnchanged
    /\ UNCHANGED <<js_ctx, soup, payload, cookies, login_status, response_list,
                   result>>

\* get line 258: the body is not JSON (requests raises its JSONDecodeError,
\* a RequestException since requests 2.27 and a plain ValueError before), or
\* it is JSON that zip cannot iterate (TypeError)
BatchBadBody ==
    /\ pc = "query"
    /\ \E cls \in {"JSONDecodeError", "ValueError", "TypeError"},
          status \in AcceptedBatchStatuses(scenario) :
        /\ log' = log \o [i \in 1..Len(BatchRequests(queries)) |->
                            Req(BatchRequests(queries)[i], TRUE)]
        /\ batch_status' = status
        /\ GetFails(WrapGet(<<<<cls, "", 0>>>>), "bad_body")
    /\ WalkerUnchanged
    /\ CallUnchanged
    /\ UNCHANGED <<js_ctx, soup, payload, cookies, login_status, response_list,
                   result>>

\* get lines 256-271: raise_for_status accepts the status and the body is a
\* JSON array
BatchAnswers ==
    /\ pc = "query"
    /\ \E resp \in EnvResponses(scenario),
          status \in AcceptedBatchStatuses(scenario) :
        /\ batch_status' = status
        /\ log' = log \o [i \in 1..Len(BatchRequests(queries)) |->
                            Req(BatchRequests(queries)[i], TRUE)]
        /\ response_list' = <<resp>>
        /\ IF ZipRaises(queries, resp)
           THEN /\ GetFails(WrapGet(<<<<"AttributeError", "", 0>>>>), "bad_body")
                /\ result' = result
           ELSE /\ pc' = "returned"
                /\ result' = ZipResults(queries, resp)
                /\ NoError
    /\ WalkerUnchanged
    /\ CallUnchanged
    /\ UNCHANGED <<js_ctx, soup, payload, cookies, login_status>>

Next ==
    \/ GetLoginPage
    \/ GetScript
    \/ GetTargetPage
    \/ PostCredentials
    \/ FollowHop
    \/ CheckSession
    \/ BatchRequestFails
    \/ BatchBadBody
    \/ BatchAnswers

Spec == Init /\ [][Next]_vars

\* the request get is about to issue at each position
RequestAt(p) ==
    CASE p = "start" -> "GET_login"
      [] p = "js" -> "GET_js"
      [] p = "target" -> "GET_target"
      [] p = "post" -> "POST_login"
      [] p = "walk" -> "GET_hop"
      [] p = "query" -> "POST_batch"

\* No request of RoomInfo.py passes timeout= (lines 31, 43, 99, 160, 202,
\* 250) and requests then waits without limit: a request the server never
\* answers never returns.
Hang ==
    /\ pc \in {"start", "js", "target", "post", "walk", "query"}
    /\ log' = Append(log, Req(RequestAt(pc), FALSE))
    /\ pc' = "hung"
    /\ NoError
    /\ WalkerUnchanged
    /\ CallUnchanged
    /\ UNCHANGED <<js_ctx, soup, payload, batch_status, cookies, login_status,
                   response_list, result>>

\* Energyfy.py lines 169-176: the next cycle of the main loop builds a new
\* RoomInfo and calls get again; login line 145 creates its session
Invoke ==
    /\ pc \in {"returned", "raised"}
    /\ invocation < MaxInvocations
    /\ invocation' = invocation + 1
    /\ discarded' = discarded \cup cookies
    /\ cookies' = NewSession(cookies)
    /\ pc' = "start"
    /\ js_ctx' = <<>>
    /\ soup' = <<>>
    /\ payload' = <<>>
    /\ batch_status' = 0
    /\ log' = <<>>
    /\ login_status' = 0
    /\ start_url' = <<>>
    /\ current_url' = <<>>
    /\ redirect_count' = 0
    /\ redirect_history' = <<>>
    /\ final_response' = <<>>
    /\ loginState' = "running"
    /\ loginErr' = <<>>
    /\ err' = <<>>
    /\ failClass' = ""
    /\ response_list' = <<>>
    /\ result' = <<>>
    /\ UNCHANGED <<scenario, password, queries, mainVars, loggerVars,
                   reportVars>>

NextLogin ==
    \/ Next
    \/ Hang
    \/ Invoke

\* successive invocations of get against a portal that may also never answer
LoginSpec == InitLogin /\ [][NextLogin]_vars

----------------------------------------------------------------------------
(* Energyfy.main: the polling loop and the notification tasks *)

\* longest "queries" list of a configuration
MaxRooms == 2

\* Server酱 recipients of a room
MaxChan == 2

\* the largest max_workers of the thread pool.  main uses 5 (Energyfy.py
\* line 199); the model runs smaller pools.
max_workers == 2

\* the configured alert_balance
alert_balance == 10

\* the i-th entry of "queries": the schema (Config.py lines 68-126) wants
\* room_name, recipients and server_chan, and does not want the room names
\* to differ.  The addresses of an entry are named after its position.
QueryEntry(i, name, enabled) ==
    [room_name |-> name,
     recipients |-> <<i>>,
     server_chan |-> [enabled |-> enabled,
                      recipients |-> [k \in 1..MaxChan |-> <<i, k>>]]]

\* the "queries" lists the schema accepts.  main only compares room names
\* with each other (line 203), so the lists are taken up to renaming of the
\* rooms: the first entry is room "A".
Configs ==
    UNION {{[i \in 1..n |-> QueryEntry(i, names[i], enabled[i])] :
                names \in {f \in [1..n -> RoomIds] : f[1] = "A"},
                enabled \in [1..n -> BOOLEAN]} :
           n \in 1..MaxRooms}

\* check_interval is an integer >= 0 (Config.py lines 26-30)
CheckIntervals == {0, 60}

\* the roomInfo dict, of which main reads syje: absent (syje is <<>>), a
\* value float() reads as the number n (<<n>>, readable), or a value float()
\* cannot read
RoomInfoDict(syje, readable) == [syje |-> syje, readable |-> readable]

\* what get returns for a room: None, or the roomInfo dict with a balance
\* below alert_balance, with a balance equal to it, or with a syje float()
\* cannot read
RoomOutcomes ==
    {<<>>, <<RoomInfoDict(<<5>>, TRUE)>>, <<RoomInfoDict(<<10>>, TRUE)>>,
     <<RoomInfoDict(<<0>>, FALSE)>>}

\* what get returns for the room names: pairs (name, outcome) in the order
\* of the names, possibly fewer than names (get zips with the response)
GetResults(names) ==
    UNION {{[i \in 1..n |-> <<Str(names[i]), out[i]>>] :
                out \in [1..n -> RoomOutcomes]} : n \in 0..Len(names)}

\* line 185: float(...) raises
FloatRaises(info) == ~info.readable

\* line 185: float(result.get("syje", '0.0'))
Balance(info) == IF info.syje = <<>> THEN 0 ELSE info.syje[1]

\* a faulty variant of Below: the threshold itself alerts
BelowOrEqual(balance, threshold) == balance <= threshold

\* line 188
Below(balance, threshold) == balance < threshold

\* lines 180-192: the loop over results raises at the first entry float()
\* cannot read
ProcessingRaises(res) ==
    \E i \in 1..Len(res) : res[i][2] # <<>> /\ FloatRaises(res[i][2][1])

\* lines 179-192: alert_rooms; `idx` is not in the program: it remembers the
\* position of the result the entry was made from
RECURSIVE AlertRooms(_, _)
AlertRooms(res, i) ==
    IF i > Len(res) THEN <<>>
    ELSE IF res[i][2] # <<>> /\ Below(Balance(res[i][2][1]), alert_balance)
    THEN <<[room_name |-> res[i][1], balance |-> Balance(res[i][2][1]),
            idx |-> i]>> \o AlertRooms(res, i + 1)
    ELSE AlertRooms(res, i + 1)

\* line 203: next((q for q in queries if q["room_name"] == room_name), None)
RoomConfig(qs, room_name) ==
    qs[CHOOSE i \in 1..Len(qs) :
          /\ qs[i].room_name = room_name
          /\ \A j \in 1..(i - 1) : qs[j].room_name # room_name]

\* no invocation of get is modelled
GetAtRest ==
    /\ invocation = 1
    /\ discarded = {}
    /\ password = <<"pw">>
    /\ pc = "idle"
    /\ queries = <<>>
    /\ js_ctx = <<>>
    /\ soup = <<>>
    /\ payload = <<>>
    /\ batch_status = 0
    /\ cookies = {}
    /\ log = <<>>
    /\ login_status = 0
    /\ start_url = <<>>
    /\ current_url = <<>>
    /\ redirect_count = 0
    /\ redirect_history = <<>>
    /\ final_response = <<>>
    /\ loginState = "running"
    /\ loginErr = <<>>
    /\ err = <<>>
    /\ failClass = ""
    /\ response_list = <<>>
    /\ result = <<>>

\* main enters its polling loop with a configuration the schema accepts.
\* The pool of line 199 has 5 workers; the model runs pools of every size up
\* to max_workers, so that tasks both overlap and have to queue.
InitMain ==
    /\ scenario = "main"
    /\ GetAtRest
    /\ mpc = "validate"
    /\ config \in Configs
    /\ check_interval \in CheckIntervals
    /\ results = <<>>
    /\ alert_rooms = <<>>
    /\ tasks = <<>>
    /\ cycle_error = ""
    /\ workers \in 1..max_workers
    /\ LoggerAtRest
    /\ ReportAtRest

ConfigUnchanged ==
    UNCHANGED <<getVars, config, check_interval, workers, loggerVars,
                reportVars>>

\* a faulty variant of CycleFails: the exception ends main
CycleFailsExit(where) ==
    /\ mpc' = "returned"
    /\ cycle_error' = where

\* lines 229-232: the except clause of the main loop
CycleFails(where) ==
    /\ mpc' = "sleep30"
    /\ cycle_error' = where

\* lines 221-227
EndOfCycle ==
    /\ mpc' = IF check_interval <= 0 THEN "returned" ELSE "sleeping"
    /\ cycle_error' = cycle_error

\* lines 141-148: config_reader.validate() returns or raises
Validate ==
    /\ mpc = "validate"
    /\ \E ok \in BOOLEAN :
          IF ok THEN mpc' = "query" /\ cycle_error' = cycle_error
          ELSE CycleFails("validate")
    /\ UNCHANGED <<results, alert_rooms, tasks>>
    /\ ConfigUnchanged

\* lines 151-196: room_info.get raises
QueryFails ==
    /\ mpc = "query"
    /\ CycleFails("get")
    /\ UNCHANGED <<results, alert_rooms, tasks>>
    /\ ConfigUnchanged

\* lines 151-196 (and 221-227 when no room alerts): room_info.get returns,
\* the results are gone through
QueryReturns ==
    /\ mpc = "query"
    /\ \E res \in GetResults([i \in 1..Len(config) |-> config[i].room_name]) :
        /\ results' = <<res>>
        /\ IF ProcessingRaises(res)
           THEN /\ CycleFails("float")
                /\ alert_rooms' = <<>>
           ELSE /\ alert_rooms' = AlertRooms(res, 1)
                /\ IF AlertRooms(res, 1) # <<>>
                   THEN mpc' = "submit" /\ cycle_error' = cycle_error
                   ELSE EndOfCycle
    /\ tasks' = tasks
    /\ ConfigUnchanged

\* a task of the pool: send_notifications with its arguments, its position,
\* the sends it has attempted and which of them was the first to fail (0: none)
Task(alert, room_config) ==
    [room_name |-> alert.room_name,
     balance |-> alert.balance,
     room_config |-> room_config,
     idx |-> alert.idx,
     state |-> "queued",
     attempts |-> <<>>,
     failed_at |-> 0]

\* lines 201-212: one iteration of the submitting loop
Submit ==
    /\ mpc = "submit"
    /\ LET alert == alert_rooms[Len(tasks) + 1]
       IN  tasks' = Append(tasks, Task(alert, RoomConfig(config, alert.room_name)))
    /\ mpc' = IF Len(tasks) + 1 = Len(alert_rooms) THEN "wait" ELSE "submit"
    /\ UNCHANGED <<results, alert_rooms, cycle_error>>
    /\ ConfigUnchanged

Running(ts) == {t \in 1..Len(ts) : ts[t].state = "sending"}

Finished(ts) == {t \in 1..Len(ts) : ts[t].state \in {"done", "raised"}}

\* a worker of the pool takes a queued task; send_notifications lines 87-92:
\* the notification texts are built by functions of utils.Defaults, which
\* return or raise
TaskStarts(t) ==
    /\ tasks[t].state = "queued"
    /\ Cardinality(Running(tasks)) < workers
    /\ \E ok \in BOOLEAN :
          tasks' = [tasks EXCEPT ![t].state = IF ok THEN "sending" ELSE "raised"]
    /\ UNCHANGED <<mpc, results, alert_rooms, cycle_error>>
    /\ ConfigUnchanged

Attempt(kind, to) == [kind |-> kind, to |-> to]

\* the first failed send of a task after one more send
FailedAt(task, ok) ==
    IF ok \/ task.failed_at # 0 THEN task.failed_at ELSE Len(task.attempts) + 1

ChanAttempts(task) ==
    Cardinality({i \in 1..Len(task.attempts) : task.attempts[i].kind = "chan"})

\* the Server酱 sends send_notifications has still to attempt
ChanLeft(task) ==
    IF task.room_config.server_chan.enabled
    THEN Len(task.room_config.server_chan.recipients) - ChanAttempts(task)
    ELSE 0

\* a faulty variant of AfterChan: a failed send ends the task with the error
AfterChanAborting(ok) == IF ok THEN "sending" ELSE "raised"

\* lines 97-107: the send's exception is logged and the loop goes on
AfterChan(ok) == "sending"

\* send_notifications lines 95-107: one iteration of the Server酱 loop
SendServerChan(t) ==
    /\ tasks[t].state = "sending"
    /\ ChanLeft(tasks[t]) > 0
    /\ \E ok \in BOOLEAN :
        LET to == tasks[t].room_config.server_chan.recipients[
                      ChanAttempts(tasks[t]) + 1]
        IN  tasks' = [tasks EXCEPT
                        ![t].attempts = Append(@, Attempt("chan", to)),
                        ![t].failed_at = FailedAt(tasks[t], ok),
                        ![t].state = AfterChan(ok)]
    /\ UNCHANGED <<mpc, results, alert_rooms, cycle_error>>
    /\ ConfigUnchanged

\* send_notifications lines 110-119: the e-mail; its exception is logged
SendEmail(t) ==
    /\ tasks[t].state = "sending"
    /\ ChanLeft(tasks[t]) = 0
    /\ \E ok \in BOOLEAN :
        tasks' = [tasks EXCEPT
                    ![t].attempts =
                        Append(@, Attempt("email", tasks[t].room_config.recipients)),
                    ![t].failed_at = FailedAt(tasks[t], ok),
                    ![t].state = "done"]
    /\ UNCHANGED <<mpc, results, alert_rooms, cycle_error>>
    /\ ConfigUnchanged

\* a faulty variant of AllFinished: main does not wait for the pool
NoWait(ts) == TRUE

\* lines 214-219 and the exit of the `with` block of line 199
\* (executor.shutdown(wait=True)): every future is done
AllFinished(ts) == Finished(ts) = 1..Len(ts)

\* lines 214-227: main has waited for the tasks; the exception of a task is
\* logged (line 219) and the cycle ends
AwaitTasks ==
    /\ mpc = "wait"
    /\ AllFinished(tasks)
    /\ EndOfCycle
    /\ UNCHANGED <<results, alert_rooms, tasks>>
    /\ ConfigUnchanged

\* lines 227 and 232, then line 138: the sleep is over, the next cycle starts
WakeUp ==
    /\ mpc \in {"sleeping", "sleep30"}
    /\ mpc' = "validate"
    /\ results' = <<>>
    /\ alert_rooms' = <<>>
    /\ tasks' = <<>>
    /\ cycle_error' = ""
    /\ ConfigUnchanged

NextMain ==
    \/ Validate
    \/ QueryFails
    \/ QueryReturns
    \/ Submit
    \/ \E t \in 1..Len(tasks) : TaskStarts(t)
    \/ \E t \in 1..Len(tasks) : SendServerChan(t)
    \/ \E t \in 1..Len(tasks) : SendEmail(t)
    \/ AwaitTasks
    \/ WakeUp

\* main, from the first cycle on, with its pool of workers
MainSpec == InitMain /\ [][NextMain]_vars

----------------------------------------------------------------------------
(* utils.Logger: the singleton and its global access point *)

\* the line a call starts at
FirstLine(e) == IF e = "get_logger" THEN "l84" ELSE "l13"

\* threads make their first calls, of Logger() or of get_logger(), at the
\* same time
InitLogger ==
    /\ scenario = "logger"
    /\ GetAtRest
    /\ MainAtRest
    /\ ReportAtRest
    /\ called \in [Threads -> {"Logger", "get_logger"}]
    /\ lpc = [th \in Threads |-> FirstLine(called[th])]
    /\ lock = 0
    /\ instance = <<>>
    /\ created = 0
    /\ init_runs = 0
    /\ handlers = <<>>
    /\ returned = [th \in Threads |-> <<>>]

LoggerUnchanged(unchanged) ==
    /\ UNCHANGED <<getVars, mainVars, reportVars, called>>
    /\ UNCHANGED unchanged

GoTo(th, line) == lpc' = [lpc EXCEPT ![th] = line]

\* the call of thread th is over: Logger(...) evaluates to the object __new__
\* returned, inside get_logger the value is dropped and line 94 follows
InitOver(th) ==
    IF called[th] = "get_logger"
    THEN GoTo(th, "l94") /\ returned' = returned
    ELSE GoTo(th, "returned") /\ returned' = [returned EXCEPT ![th] = instance]

\* get_logger line 84: if Logger._instance is None
GetLoggerCheck(th) ==
    /\ lpc[th] = "l84"
    /\ GoTo(th, IF instance = <<>> THEN "l13" ELSE "l94")
    /\ LoggerUnchanged(<<lock, instance, created, init_runs, handlers, returned>>)

\* __new__ line 13: if cls._instance is None
NewCheck(th) ==
    /\ lpc[th] = "l13"
    /\ GoTo(th, IF instance = <<>> THEN "l14" ELSE "l19")
    /\ LoggerUnchanged(<<lock, instance, created, init_runs, handlers, returned>>)

\* __new__ line 14: with cls._lock
AcquireLock(th) ==
    /\ lpc[th] = "l14"
    /\ lock = 0
    /\ lock' = th
    /\ GoTo(th, "l15")
    /\ LoggerUnchanged(<<instance, created, init_runs, handlers, returned>>)

\* __new__ line 15: the second check; when it fails the with block is left
NewRecheck(th) ==
    /\ lpc[th] = "l15"
    /\ IF instance = <<>>
       THEN GoTo(th, "l16") /\ lock' = lock
       ELSE GoTo(th, "l19") /\ lock' = 0
    /\ LoggerUnchanged(<<instance, created, init_runs, handlers, returned>>)

\* __new__ line 16: cls._instance = super(Logger, cls).__new__(cls).  The new
\* object has no attributes: _initialized is "absent" until line 18 sets it,
\* logger is absent (FALSE) until line 28 sets it.
NewCreate(th) ==
    /\ lpc[th] = "l16"
    /\ instance' = <<[initialized |-> "absent", logger |-> FALSE]>>
    /\ created' = created + 1
    /\ GoTo(th, "l18")
    /\ LoggerUnchanged(<<lock, init_runs, handlers, returned>>)

\* __new__ line 18: cls._instance._initialized = False, then the with block
\* is left
NewMark(th) ==
    /\ lpc[th] = "l18"
    /\ instance' = <<[instance[1] EXCEPT !.initialized = "False"]>>
    /\ lock' = 0
    /\ GoTo(th, "l19")
    /\ LoggerUnchanged(<<created, init_runs, handlers, returned>>)

\* __new__ line 19: return cls._instance; the object is of the class, so
\* __init__ is called on it
NewReturn(th) ==
    /\ lpc[th] = "l19"
    /\ GoTo(th, "l25")
    /\ LoggerUnchanged(<<lock, instance, created, init_runs, handlers, returned>>)

\* __init__ lines 25-26: if self._initialized: return.  Reading an attribute
\* the object does not have raises AttributeError.
InitCheck(th) ==
    /\ lpc[th] = "l25"
    /\ CASE instance[1].initialized = "absent" ->
                GoTo(th, "raised") /\ returned' = returned /\ init_runs' = init_runs
         [] instance[1].initialized = "True" ->
                InitOver(th) /\ init_runs' = init_runs
         [] OTHER ->
                GoTo(th, "l28") /\ returned' = returned /\ init_runs' = init_runs + 1
    /\ LoggerUnchanged(<<lock, instance, created, handlers>>)

\* __init__ lines 28-29: self.logger = logging.getLogger(name)
SetLogger(th) ==
    /\ lpc[th] = "l28"
    /\ instance' = <<[instance[1] EXCEPT !.logger = TRUE]>>
    /\ GoTo(th, "l32")
    /\ LoggerUnchanged(<<lock, created, init_runs, handlers, returned>>)

\* __init__ lines 32-33: the handlers the logger has are removed
ClearHandlers(th) ==
    /\ lpc[th] = "l32"
    /\ handlers' = <<>>
    /\ GoTo(th, "l44")
    /\ LoggerUnchanged(<<lock, instance, created, init_runs, returned>>)

\* __init__ lines 41-44: the console handler is added
AddConsoleHandler(th) ==
    /\ lpc[th] = "l44"
    /\ handlers' = Append(handlers, "console")
    /\ GoTo(th, "l56")
    /\ LoggerUnchanged(<<lock, instance, created, init_runs, returned>>)

\* __init__ lines 47-56: the file handler is added
AddFileHandler(th) ==
    /\ lpc[th] = "l56"
    /\ handlers' = Append(handlers, "file")
    /\ GoTo(th, "l59")
    /\ LoggerUnchanged(<<lock, instance, created, init_runs, returned>>)

\* __init__ line 59: self._initialized = True
InitDone(th) ==
    /\ lpc[th] = "l59"
    /\ instance' = <<[instance[1] EXCEPT !.initialized = "True"]>>
    /\ InitOver(th)
    /\ LoggerUnchanged(<<lock, created, init_runs, handlers>>)

\* get_logger line 94: return Logger._instance
GetLoggerReturn(th) ==
    /\ lpc[th] = "l94"
    /\ GoTo(th, "returned")
    /\ returned' = [returned EXCEPT ![th] = instance]
    /\ LoggerUnchanged(<<lock, instance, created, init_runs, handlers>>)

NextLogger ==
    \/ \E th \in Threads : GetLoggerCheck(th)
    \/ \E th \in Threads : NewCheck(th)
    \/ \E th \in Threads : AcquireLock(th)
    \/ \E th \in Threads : NewRecheck(th)
    \/ \E th \in Threads : NewCreate(th)
    \/ \E th \in Threads : NewMark(th)
    \/ \E th \in Threads : NewReturn(th)
    \/ \E th \in Threads : InitCheck(th)
    \/ \E th \in Threads : SetLogger(th)
    \/ \E th \in Threads : ClearHandlers(th)
    \/ \E th \in Threads : AddConsoleHandler(th)
    \/ \E th \in Threads : AddFileHandler(th)
    \/ \E th \in Threads : InitDone(th)
    \/ \E th \in Threads : GetLoggerReturn(th)

\* the first calls of the threads, interleaved line by line
LoggerSpec == InitLogger /\ [][NextLogger]_vars

----------------------------------------------------------------------------
(* utils.StatisticsReporter.run: the periodic report of every room *)

\* the parameters of NotificationManager.send_email (besides self)
SendEmailParams == {"recipients", "subject", "text_content", "html_content"}

\* the keyword arguments run passes to send_email
ReportKwargs ==
    {"recipients", "subject", "text_content", "html_content", "images"}

\* a call binds its keyword arguments if the function has a parameter for
\* each of them; otherwise it raises TypeError before the body runs
CallBinds(kwargs, params) == kwargs \subseteq params

\* line 324: (now_ts - last_report) > interval * day_seconds
Due(st, r) == st[r] # "recent"

\* run with a positive interval; the state file is there from earlier runs
\* or not
InitReport ==
    /\ scenario = "report"
    /\ GetAtRest
    /\ MainAtRest
    /\ LoggerAtRest
    /\ rpc = "pass"
    /\ rooms \in 1..MaxRooms
    /\ state_file \in [1..rooms -> {"old", "recent"}]
    /\ state = <<>>
    /\ room_data = <<>>
    /\ room = 0
    /\ attempted = {}

ReportUnchanged(unchanged) ==
    /\ UNCHANGED <<getVars, mainVars, loggerVars, rooms>>
    /\ UNCHANGED unchanged

\* lines 289-316: a pass starts.  The configuration is read (on failure: 60 s
\* of sleep and the next pass), the state is loaded ({} if the file cannot be
\* read, lines 144-152), and the logs the pass will work with hold fewer
\* than 2 (1) or at least 2 (2) points per room.
PassStarts ==
    /\ rpc = "pass"
    /\ attempted' = {}
    /\ \/ /\ rpc' = "sleep60"
          /\ UNCHANGED <<state, room_data, room>>
       \/ /\ rpc' = "room"
          /\ state' \in {state_file, [r \in 1..rooms |-> "old"]}
          /\ room_data' \in [1..rooms -> {1, 2}]
          /\ room' = 1
    /\ ReportUnchanged(<<state_file>>)

\* lines 318-334: the room is not due, or has fewer than 2 data points
SkipRoom ==
    /\ rpc = "room"
    /\ room <= rooms
    /\ ~Due(state, room) \/ room_data[room] < 2
    /\ room' = room + 1
    /\ ReportUnchanged(<<rpc, state_file, state, room_data, attempted>>)

\* lines 336-352: the statistics, the chart and the texts of a due room with
\* at least 2 data points are made; any of that may raise
BuildReport ==
    /\ rpc = "room"
    /\ room <= rooms
    /\ Due(state, room) /\ room_data[room] >= 2
    /\ \E ok \in BOOLEAN : rpc' = IF ok THEN "send" ELSE "failed"
    /\ ReportUnchanged(<<state_file, state, room_data, room, attempted>>)

\* lines 354-364: send_email is called; when it returns the room's time is
\* set in state and _save_state writes the file, or logs that it could not.
\* An exception leaves the for loop for the except clause of line 368.
SendReport ==
    /\ rpc = "send"
    /\ attempted' = attempted \cup {room}
    /\ \E sent \in BOOLEAN, saved \in BOOLEAN :
          IF CallBinds(ReportKwargs, SendEmailParams) /\ sent
          THEN /\ state' = [state EXCEPT ![room] = "recent"]
               /\ state_file' = IF saved THEN state' ELSE state_file
               /\ room' = room + 1
               /\ rpc' = "room"
          ELSE /\ rpc' = "failed"
               /\ UNCHANGED <<state_file, state, room>>
    /\ ReportUnchanged(<<room_data>>)

\* line 366: every entry was gone through, the thread sleeps an hour
PassEnds ==
    /\ rpc = "room"
    /\ room > rooms
    /\ rpc' = "sleep"
    /\ ReportUnchanged(<<state_file, state, room_data, room, attempted>>)

\* lines 366, 295 or 369, then line 289: after the sleep, or right after the
\* except clause, the next pass starts; by then a recent report may have
\* become an old one
NextPass ==
    /\ rpc \in {"sleep", "sleep60", "failed"}
    /\ rpc' = "pass"
    /\ state_file' \in {f \in [1..rooms -> {"old", "recent"}] :
                          \A r \in 1..rooms : state_file[r] = "old" => f[r] = "old"}
    /\ ReportUnchanged(<<state, room_data, room, attempted>>)

NextReport ==
    \/ PassStarts
    \/ SkipRoom
    \/ BuildReport
    \/ SendReport
    \/ PassEnds
    \/ NextPass

\* the reporter thread, pass after pass
ReportSpec == InitReport /\ [][NextReport]_vars

----------------------------------------------------------------------------
(* Properties *)

Count(kind) == Cardinality({i \in 1..Len(log) : log[i].req = kind})

\* C1: whenever get returns, the returned list has as many entries as the
\* identifier list and its i-th entry carries the i-th identifier, whatever
\* the length of the response array.
C1_SameLengthAndOrder ==
    pc = "returned" =>
        /\ Len(result) = Len(queries)
        /\ \A i \in 1..Len(result) : result[i][1] = queries[i]

C3_OneBatchAfterLogin ==
    /\ Count("POST_batch") <= 1
    /\ \A i \in 1..Len(log) :
          log[i].req = "POST_batch" =>
              /\ loginState = "RedirectResolved"
              /\ loginErr = <<>>
              /\ i = Len(log)
              /\ i > 1
              /\ log[i - 1] = Req("GET_hop", TRUE)
    /\ loginState # "RedirectResolved" => Count("POST_batch") = 0

\* C3 witness: two identifiers were queried with one batch POST.
C3_Witness ==
    /\ pc = "returned"
    /\ Len(queries) = 2
    /\ Len(result) = 2
    /\ Count("POST_batch") = 1

\* C4: whenever the credential POST was answered with a status that is not
\* a redirect code (4xx and 5xx included), login raises the
\* authentication-failed error carrying that status (line 208), not the
\* generic request error.
C4_AuthFailedForEveryNonRedirect ==
    (login_status # 0 /\ login_status \notin RedirectCodes) =>
        loginErr = ErrLoginStatus(login_status)

FailureClasses ==
    {"non_redirect_login", "missing_script", "missing_execution",
     "too_many_redirects", "missing_location", "transport"}

Messages(chain) == {chain[i][2] : i \in 1..Len(chain)}
Classes(chain) == {chain[i][1] : i \in 1..Len(chain)}

\* the failure class read off the classes and messages along a cause chain
ClassOfChain(chain) ==
    IF "LoginFailedStatus" \in Messages(chain) THEN "non_redirect_login"
    ELSE IF "LoginRequestFailed" \in Messages(chain)
            /\ "HTTPError" \in Classes(chain) THEN "non_redirect_login"
    ELSE IF "JsNotFound" \in Messages(chain) THEN "missing_script"
    ELSE IF "NoExecution" \in Messages(chain) THEN "missing_execution"
    ELSE IF "TooManyRedirects" \in Messages(chain) THEN "too_many_redirects"
    ELSE IF Messages(chain) \cap {"LoginNoLocation", "RedirectNoLocation"} # {}
         THEN "missing_location"
    ELSE IF Classes(chain) \cap {"ConnectionError", "MissingSchema"} # {}
         THEN "transport"
    ELSE "other"

C6_NoRetry ==
    /\ \A i \in 1..Len(log) :
          ~log[i].ok => (i = Len(log) /\ pc = "raised" /\ err # <<>>)
    /\ failClass # "" => pc = "raised"
    /\ pc = "raised" => ~ENABLED Next

\* C6 witness: a hop GET of the redirect walk failed after two answered
\* hops; it is the last request and get has raised.
C6_Witness ==
    /\ pc = "raised"
    /\ Len(redirect_history) = 2
    /\ log[Len(log)] = Req("GET_hop", FALSE)
    /\ Count("GET_hop") = 3

\* C7 as stated: when follow_redirects returns after N redirects, the
\* history it returns has exactly N entries.
C7_ExactlyNHops ==
    pc = "logged_in" => Len(redirect_history) = redirect_count

\* C7 (amended): when follow_redirects returns after N redirects (N <
\* max_redirects) it returns the terminal, non-redirect response together
\* with N + 1 recorded entries: one per redirect response, in order, and a
\* last one for the terminal response itself.
C7_RedirectsPlusTerminal ==
    pc = "logged_in" =>
        /\ redirect_count < max_redirects
        /\ Len(redirect_history) = redirect_count + 1
        /\ \A i \in 1..redirect_count :
              redirect_history[i].status \in RedirectCodes
        /\ final_response # <<>>
        /\ final_response[1].status \notin RedirectCodes
        /\ redirect_history[redirect_count + 1].status = final_response[1].status
        /\ redirect_history[redirect_count + 1].url = final_response[1].url

\* C7 witness: a walk of two redirects that ended in a 200.
C7_Witness ==
    /\ pc = "logged_in"
    /\ redirect_count = 2
    /\ final_response[1].status = 200
    /\ Len(redirect_history) = 3

\* C8: follow_redirects raises the too-many-redirects error only when more
\* than max_redirects redirects were met.
C8_OnlyWhenExceeded ==
    loginErr = ErrTooManyRedirects => redirect_count > max_redirects

HopGets == Count("GET_hop")

\* the redirect responses received that carried a Location header
FollowableRedirects ==
    Cardinality({i \in 1..Len(redirect_history) :
                    /\ redirect_history[i].status \in RedirectCodes
                    /\ redirect_history[i].location # NoLocation})

\* C9: follow_redirects issues fewer than max_redirects + 2 GETs, every GET
\* but the last was answered by a redirect that was counted, and as soon as
\* max_redirects redirects (each with a Location) were received, as in any
\* chain of max_redirects + 1 or more redirects, cyclic ones included, the
\* walk has ended with the too-many-redirects error.
C9_BoundedWalk ==
    /\ HopGets < max_redirects + 2
    /\ pc \in {"walk", "logged_in"} \/ loginState = "Failed" =>
          /\ redirect_count <= max_redirects
          /\ HopGets <= redirect_count + 1
    /\ FollowableRedirects >= max_redirects =>
          /\ pc = "raised"
          /\ loginErr = ErrTooManyRedirects
          /\ HopGets = max_redirects

\* C9 witness: a cyclic chain (the first URL is requested again) ended with
\* the too-many-redirects error.
C9_Witness ==
    /\ loginErr = ErrTooManyRedirects
    /\ FollowableRedirects = max_redirects
    /\ \E i \in 2..Len(redirect_history) :
          redirect_history[i].url = redirect_history[1].url

Origin(url) == SubSeq(url, 1, 3)
Path(url) == SubSeq(url, 4, Len(url))

\* the URL requested after the i-th recorded response
NextUrl(i) ==
    IF i < Len(redirect_history) THEN redirect_history[i + 1].url
    ELSE current_url

C11_MissingLocationFatal ==
    /\ pc = "walk" => start_url # NoLocation /\ current_url # NoLocation
    /\ (/\ log # <<>>
        /\ log[Len(log)] = Req("POST_login", TRUE)
        /\ login_status \in RedirectCodes
        /\ pc # "walk") =>
            /\ pc = "raised"
            /\ loginState = "Failed"
            /\ loginErr = ErrLoginNoLocation
            /\ final_response = <<>>
            /\ Count("GET_hop") = 0
            /\ Count("POST_batch") = 0
            /\ ~ENABLED Next
    /\ \A i \in 1..Len(redirect_history) :
          (/\ redirect_history[i].status \in RedirectCodes
           /\ redirect_history[i].location = NoLocation) =>
            /\ i = Len(redirect_history)
            /\ pc = "raised"
            /\ loginState = "Failed"
            /\ loginErr = ErrRedirectNoLocation
            /\ final_response = <<>>
            /\ log[Len(log)] = Req("GET_hop", TRUE)
            /\ Count("GET_hop") = i
            /\ Count("POST_batch") = 0
            /\ ~ENABLED Next

\* C11 witness: the second hop of the walk is answered with a redirect status
\* and no Location header, and login has failed.
C11_Witness ==
    /\ Len(redirect_history) = 2
    /\ redirect_history[2].status \in RedirectCodes
    /\ redirect_history[2].location = NoLocation
    /\ loginErr = ErrRedirectNoLocation
    /\ pc = "raised"

\* C12: when the login target page has no input named execution, login has
\* failed with the missing-execution error (wrapped by the error of line
\* 178), the page fetch is the last request of the invocation and no
\* credential POST has been issued in it.
C12_NoExecutionNoPost ==
    (/\ soup # <<>>
     /\ \A i \in 1..Len(soup[1]) : soup[1][i].name # "execution") =>
        /\ pc = "raised"
        /\ loginState = "Failed"
        /\ loginErr = ErrLoginInit(ErrNoExecution)
        /\ log[Len(log)] = Req("GET_target", TRUE)
        /\ Count("POST_login") = 0
        /\ final_response = <<>>
        /\ ~ENABLED Next

\* C12 witness: a page with a salt input and another hidden input, but no
\* execution input, has been fetched and login has failed.
C12_Witness ==
    /\ soup # <<>>
    /\ Len(soup[1]) = 2
    /\ soup[1][1].id = "pwdEncryptSalt"
    /\ soup[1][2].name = "rmShown"
    /\ pc = "raised"
    /\ Count("POST_login") = 0

\* the first input with id pwdEncryptSalt on the page, as a set of positions
SaltPositions(page) == {i \in 1..Len(page) : page[i].id = "pwdEncryptSalt"}

\* C13: the password field of the payload login submits is what the portal
\* script's encryptPassword returns for the plaintext password and the salt,
\* the salt being the value of the (first) input with id pwdEncryptSalt when
\* the page has one and the fallback literal when it has none; login never
\* fails for the lack of a salt input: a fetched page with an execution input
\* and a script that defines encryptPassword always give a payload.
C13_PasswordField ==
    /\ payload # <<>> =>
          LET page == soup[1]
              pos == SaltPositions(page)
              salt == IF pos = {} THEN <<"rjBFAaHsNkKAhpoi">>
                      ELSE page[CHOOSE i \in pos : \A j \in pos : i <= j].value
          IN  /\ payload[1]["password"] = Encrypt(js_ctx[1], password, salt)
              /\ (js_ctx[1] = "p+s" /\ password = <<"pw">> /\ salt = <<"xyz">>)
                    => payload[1]["password"] = <<"pw", "xyz">>
    /\ (/\ soup # <<>>
        /\ SaltPositions(soup[1]) = {}
        /\ \E i \in 1..Len(soup[1]) : soup[1][i].name = "execution"
        /\ js_ctx[1] # "nofunc") =>
            /\ payload # <<>>
            /\ loginState = "running"
            /\ err = <<>>

\* C13 witness: the page has no salt input and the payload is ready to be
\* submitted with the password encrypted under the fallback salt.
C13_Witness ==
    /\ pc = "post"
    /\ payload # <<>>
    /\ SaltPositions(soup[1]) = {}
    /\ js_ctx = <<"p+s">>
    /\ password = <<"pw">>
    /\ payload[1]["password"] = <<"pw", "rjBFAaHsNkKAhpoi">>

\* the hidden inputs of the page that carry a name, as a set of positions
NamedHidden(page) ==
    {i \in 1..Len(page) : page[i].type = "hidden" /\ page[i].name # ""}

\* C14: in the payload login builds, username, password, captcha, _eventId,
\* cllt, dllt, lt and execution have their seeded values whatever hidden
\* inputs the page has, every other named hidden input is a key whose value
\* is that of the first hidden input of that name, and there is no other key.
C14_SeedsKeptFirstWins ==
    payload # <<>> =>
        LET pl == payload[1]
            page == soup[1]
            seeded == {"username", "password", "captcha", "_eventId", "cllt",
                       "dllt", "lt", "execution"}
            firstExecution ==
                CHOOSE i \in 1..Len(page) :
                    /\ page[i].name = "execution"
                    /\ \A j \in 1..(i - 1) : page[j].name # "execution"
        IN  /\ pl["username"] = <<"user">>
            /\ pl["password"] = Encrypt(js_ctx[1], password, SaltOf(page))
            /\ pl["captcha"] = <<>>
            /\ pl["_eventId"] = <<"submit">>
            /\ pl["cllt"] = <<"userNameLogin">>
            /\ pl["dllt"] = <<"generalLogin">>
            /\ pl["lt"] = <<>>
            /\ pl["execution"] = page[firstExecution].value
            /\ DOMAIN pl =
                  seeded \cup {page[i].name : i \in NamedHidden(page)}
            /\ \A i \in NamedHidden(page) :
                  (/\ page[i].name \notin seeded
                   /\ \A j \in NamedHidden(page) :
                         page[j].name = page[i].name => i <= j)
                    => pl[page[i].name] = page[i].value

\* C14 witness: the page has two hidden inputs of the same name with
\* different values before its execution input; the payload carries the
\* value of the first.
C14_Witness ==
    /\ payload # <<>>
    /\ Len(soup[1]) = 3
    /\ soup[1][1] = Tag("hidden", "rmShown", "", <<"2">>)
    /\ soup[1][2] = Tag("hidden", "rmShown", "", <<"1">>)
    /\ payload[1]["rmShown"] = <<"2">>

\* C15: every invocation of get logs in afresh, with a session of its own.
\* The cookie jar is empty when login starts, at every moment it holds only
\* cookies that were set during the current invocation (so none of an
\* earlier session is ever sent), and a batch request is preceded, within
\* its invocation, by the whole login: the three page fetches, the
\* credential POST and a walk that ended on a terminal response.
C15_FreshSession ==
    /\ pc = "start" => cookies = {}
    /\ \A c \in cookies : c[2] = invocation
    /\ \A c \in discarded : c[2] < invocation
    /\ Count("POST_batch") > 0 =>
          /\ Len(log) >= 6
          /\ log[1] = Req("GET_login", TRUE)
          /\ log[2] = Req("GET_js", TRUE)
          /\ log[3] = Req("GET_target", TRUE)
          /\ log[4] = Req("POST_login", TRUE)
          /\ \A i \in 5..(Len(log) - 1) : log[i] = Req("GET_hop", TRUE)
          /\ loginState = "RedirectResolved"

\* C15 witness: the second invocation has returned a result with a session
\* of its own, after a first invocation whose session had a cookie.
C15_Witness ==
    /\ invocation = 2
    /\ discarded = {<<"CASTGC", 1>>}
    /\ cookies = {<<"CASTGC", 2>>}
    /\ pc = "returned"
    /\ Count("POST_batch") = 1

\* C16: get sends the batch request only with the session of a login that
\* returned and whose cookie jar is not empty; when login returned with an
\* empty jar, get has raised the no-valid-session error (wrapped by get's own
\* except clause), has sent no batch request and returns nothing.
C16_NoBatchWithoutSession ==
    /\ Count("POST_batch") > 0 =>
          loginState = "RedirectResolved" /\ cookies # {}
    /\ (loginState = "RedirectResolved" /\ pc # "logged_in" /\ cookies = {}) =>
          /\ pc = "raised"
          /\ Len(err) = 2
          /\ Kind(err) = "RuntimeError"
          /\ err[2] = <<"RuntimeError", "NoSession", 0>>
          /\ Count("POST_batch") = 0
          /\ result = <<>>
          /\ ~ENABLED Next

\* C16 witness: login walked two hops to a terminal response without the
\* portal ever setting a cookie, and get raised the no-valid-session error.
C16_Witness ==
    /\ pc = "raised"
    /\ loginState = "RedirectResolved"
    /\ cookies = {}
    /\ Count("GET_hop") = 2
    /\ failClass = "no_session"
    /\ Count("POST_batch") = 0

\* the batch request was the last request, and it failed in transport or was
\* answered with a status outside 200..299
BatchFailed ==
    /\ log # <<>>
    /\ log[Len(log)].req = "POST_batch"
    /\ pc # "hung"
    /\ batch_status \notin 200..299

\* C17 as stated: when the batch request fails (non-2xx status or transport
\* failure), get raises an error that wraps the cause and returns no entry,
\* and the batch request has been sent once.
C17_FailedBatchRaises ==
    BatchFailed =>
        /\ pc = "raised"
        /\ Len(err) >= 2
        /\ result = <<>>
        /\ Count("POST_batch") = 1

\* C18 as stated: every request has a bounded timeout, so an invocation of
\* get that has neither returned nor raised can always take a further step,
\* even when a server never answers.
C18_AlwaysReturnsOrRaises ==
    pc \in {"returned", "raised"} \/ ENABLED NextLogin

\* the error at the root of a cause chain
RootOf(chain) == chain[Len(chain)]

\* the requests login issues
LoginRequests == {"GET_login", "GET_js", "GET_target", "POST_login", "GET_hop"}

\* C19: login has returned only after the walker's last GET was answered
\* with a response that is neither a redirect nor an error, every request
\* before it having succeeded, and it returned that response; a failure of
\* any step of login (a request, the script tag, compilation, the execution
\* token, encryption, the POST's status or Location, the walk) has made login
\* raise a RuntimeError whose cause chain ends in the originating error, and
\* get raise in turn: no failure leads to a return.
C19_ReturnOnlyAtTerminal ==
    /\ loginState = "RedirectResolved" =>
          /\ loginErr = <<>>
          /\ Count("GET_hop") >= 1
          /\ \A i \in 1..Len(log) : log[i].req \in LoginRequests => log[i].ok
          /\ pc = "logged_in" =>
                /\ final_response # <<>>
                /\ final_response[1].status \notin RedirectCodes
                /\ ~IsHttpError(final_response[1].status)
                /\ log[Len(log)] = Req("GET_hop", TRUE)
                /\ redirect_history[Len(redirect_history)].status =
                      final_response[1].status
                /\ redirect_history[Len(redirect_history)].url =
                      final_response[1].url
    /\ (\E i \in 1..Len(log) : log[i].req \in LoginRequests /\ ~log[i].ok) =>
          /\ loginState = "Failed"
          /\ RootOf(loginErr)[1] \in {"ConnectionError", "HTTPError", "MissingSchema"}
    /\ (login_status # 0 /\ login_status \notin RedirectCodes) =>
          loginState = "Failed"
    /\ loginState = "Failed" =>
          /\ pc = "raised"
          /\ final_response = <<>>
          /\ Count("POST_batch") = 0
          /\ loginErr # <<>>
          /\ Kind(loginErr) = "RuntimeError"
          /\ err = <<RuntimeError("QueryError")>> \o loginErr
          /\ failClass = "missing_script" =>
                RootOf(loginErr) = RuntimeError("JsNotFound")
          /\ failClass = "compile" => RootOf(loginErr)[1] = "ProgramError"
          /\ failClass = "missing_execution" =>
                RootOf(loginErr) = <<"ValueError", "NoExecution", 0>>
          /\ failClass = "encrypt" => RootOf(loginErr)[1] = "ProgramError"
          /\ failClass = "non_redirect_login" =>
                \/ RootOf(loginErr) =
                      <<"RuntimeError", "LoginFailedStatus", login_status>>
                \/ RootOf(loginErr) = HTTPError(login_status)
          /\ failClass = "missing_location" =>
                RootOf(loginErr)[2] \in {"LoginNoLocation", "RedirectNoLocation"}
          /\ failClass = "too_many_redirects" =>
                RootOf(loginErr)[2] = "TooManyRedirects"
    /\ loginState = "running" =>
          pc \in {"start", "js", "target", "post", "walk"} /\ loginErr = <<>>

\* C19 witness: the script was fetched and compiled, the page had its
\* execution token, and the call of encryptPassword raised; login raised a
\* RuntimeError that carries the script's error.
C19_Witness ==
    /\ loginState = "Failed"
    /\ failClass = "encrypt"
    /\ Len(loginErr) = 2
    /\ Kind(loginErr) = "RuntimeError"
    /\ RootOf(loginErr) = <<"ProgramError", "", 0>>
    /\ pc = "raised"

\* C20 as stated: the login target page (the page that carries the execution
\* token and the salt) is fetched first and the encryption asset is resolved
\* after it: every request for the asset comes after the fetch of the target
\* page.
C20_TargetPageFirst ==
    \A i \in 1..Len(log) :
        log[i].req \in {"GET_login", "GET_js"} =>
            \E j \in 1..(i - 1) : log[j].req = "GET_target"

\* C20 (amended): login first resolves the encryption asset (GET of the login
\* endpoint, GET of the script, compilation), then fetches the login target
\* page, extracts the token and the salt and encrypts, then submits: the
\* requests of an invocation are, in this order, GET_login, GET_js,
\* GET_target, POST_login, each issued only after the one before it
\* succeeded; the POST is issued at most once and only with a compiled script
\* that defines encryptPassword and a payload built from the page; a failure
\* of any earlier step leaves the invocation without a credential POST.
C20_AssetThenPageThenPost ==
    /\ Len(log) >= 1 => log[1].req = "GET_login"
    /\ Len(log) >= 2 => log[1].ok /\ log[2].req = "GET_js"
    /\ Len(log) >= 3 => log[2].ok /\ log[3].req = "GET_target"
    /\ Len(log) >= 4 => log[3].ok /\ log[4].req = "POST_login"
    /\ \A i \in 5..Len(log) : log[i].req \in {"GET_hop", "POST_batch"}
    /\ pc = "post" =>
          /\ Len(log) = 3
          /\ js_ctx # <<>>
          /\ js_ctx[1] # "nofunc"
          /\ soup # <<>>
          /\ \E i \in 1..Len(soup[1]) : soup[1][i].name = "execution"
          /\ payload # <<>>
    /\ failClass \in {"missing_script", "compile", "missing_execution", "encrypt"}
          => Count("POST_login") = 0 /\ pc = "raised"
    /\ (Len(log) \in 1..3 /\ ~log[Len(log)].ok) =>
          Count("POST_login") = 0 /\ pc = "raised"

\* C20 witness: the credential POST has been issued, as the fourth request,
\* after the three fetches succeeded, and the walk is about to start.
C20_Witness ==
    /\ pc = "walk"
    /\ Len(log) = 4
    /\ log[1] = Req("GET_login", TRUE)
    /\ log[2] = Req("GET_js", TRUE)
    /\ log[3] = Req("GET_target", TRUE)
    /\ log[4] = Req("POST_login", TRUE)

\* the URL a Location value stands for when it is returned for url
Resolved(loc, url) ==
    IF Len(loc) >= 3 /\ loc[1] \in {"http:", "https:"} /\ loc[2] = "" THEN loc
    ELSE IF loc[1] = "" THEN BASE_URL \o Tail(loc)
    ELSE Origin(url) \o loc

\* the hop GETs of the log that were answered without an error status
AnsweredHops == {i \in 1..Len(log) : log[i] = Req("GET_hop", TRUE)}

\* C21: while follow_redirects runs and when it has returned or raised, its
\* history is the list of the GETs answered so far, in order: it has one
\* entry per answered GET and none for a failed one (transport error or
\* error status), its first entry's url is the start URL, and the url of
\* every later entry is the URL resolved from the Location header recorded
\* in the entry before it.
C21_HistoryIsAnsweredGets ==
    (pc \in {"walk", "logged_in"} \/ loginState = "Failed") =>
        /\ Len(redirect_history) = Cardinality(AnsweredHops)
        /\ \A i \in 1..Len(redirect_history) :
              ~IsHttpError(redirect_history[i].status)
        /\ redirect_history # <<>> => redirect_history[1].url = start_url
        /\ \A i \in 2..Len(redirect_history) :
              /\ redirect_history[i - 1].status \in RedirectCodes
              /\ redirect_history[i - 1].location # NoLocation
              /\ redirect_history[i].url =
                    Resolved(redirect_history[i - 1].location,
                             redirect_history[i - 1].url)

\* C21 witness: two GETs were answered, the second at the URL resolved from
\* a relative Location, and the third was answered with an error status; the
\* history has the two entries.
C21_Witness ==
    /\ pc = "raised"
    /\ failClass = "http_error"
    /\ Count("GET_hop") = 3
    /\ Len(redirect_history) = 2
    /\ redirect_history[1].location = LocRel
    /\ redirect_history[2].url = Origin(start_url) \o LocRel

\* C22: the polling loop of main never exits on an error.  In every reachable
\* state of main: after an exception anywhere in the cycle (validation, the
\* query, the processing of the results) main is in its 30 s wait and nowhere
\* else, and from that wait it can only start the next cycle; main has
\* returned only at the end of a cycle that raised nothing, with
\* check_interval <= 0.
C22_NeverExitsOnError ==
    /\ cycle_error # "" => mpc = "sleep30"
    /\ mpc = "sleep30" =>
          /\ cycle_error \in {"validate", "get", "float"}
          /\ ENABLED WakeUp
          /\ ~ENABLED (NextMain /\ mpc' # "validate")
    /\ mpc = "returned" =>
          /\ check_interval <= 0
          /\ cycle_error = ""
          /\ \A t \in 1..Len(tasks) : tasks[t].state \in {"done", "raised"}
          /\ ~ENABLED NextMain

\* the processing of a fetched result raised and main waits its 30 s, in
\* single-shot mode as well
C22_Witness ==
    /\ mpc = "sleep30"
    /\ cycle_error = "float"
    /\ check_interval = 0
    /\ results # <<>>

\* the positions of the fetched results that are not None and whose balance
\* is strictly below alert_balance
C23_Due ==
    IF results = <<>> THEN {}
    ELSE {i \in 1..Len(results[1]) :
            /\ results[1][i][2] # <<>>
            /\ Balance(results[1][i][2][1]) < alert_balance}

\* C23: a notification task is submitted for a room only if its result is
\* not None and its balance is strictly below alert_balance.  In every
\* reachable state of main every submitted task was made from such a result
\* (with that result's room name and balance), the tasks follow the order of
\* the results without repetition, and once the submitting loop is over there
\* is a task for every such result: a None result before it, or a room at or
\* above the threshold, is skipped and does not stop the later rooms.
C23_AlertsOnlyBelow ==
    /\ \A t \in 1..Len(tasks) :
          /\ tasks[t].idx \in C23_Due
          /\ tasks[t].room_name = results[1][tasks[t].idx][1]
          /\ tasks[t].balance = Balance(results[1][tasks[t].idx][2][1])
          /\ \A u \in 1..(t - 1) : tasks[u].idx < tasks[t].idx
    /\ mpc \in {"wait", "sleeping", "returned"} =>
          {tasks[t].idx : t \in 1..Len(tasks)} = C23_Due
    /\ mpc = "submit" => C23_Due # {} /\ Len(tasks) < Cardinality(C23_Due)

\* the first room's result is None and the last room, and only it, got its
\* task
C23_Witness ==
    /\ mpc = "wait"
    /\ Len(results[1]) = MaxRooms
    /\ results[1][1][2] = <<>>
    /\ Len(tasks) = 1
    /\ tasks[1].idx = MaxRooms

\* C24: every alerted room's notifications use the recipients and the
\* Server酱 settings of that room's own entry of "queries": the room_config
\* of every submitted task is the entry the task's result was fetched for,
\* for every configuration the schema accepts.
C24_OwnEntrySettings ==
    \A t \in 1..Len(tasks) : tasks[t].room_config = config[tasks[t].idx]

\* the sends send_notifications owes for a room_config: one per Server酱
\* recipient, in order, if Server酱 is enabled, then one e-mail
C25_Owed(room_config) ==
    (IF room_config.server_chan.enabled
     THEN [k \in 1..Len(room_config.server_chan.recipients) |->
              [kind |-> "chan", to |-> room_config.server_chan.recipients[k]]]
     ELSE <<>>)
    \o <<[kind |-> "email", to |-> room_config.recipients]>>

C26_TasksFinishBeforeSleep ==
    /\ mpc \in {"sleeping", "returned"} =>
          /\ \A t \in 1..Len(tasks) : tasks[t].state \in {"done", "raised"}
          /\ cycle_error = ""
    /\ tasks # <<>> => cycle_error = "" /\ mpc # "sleep30"
    /\ \A t \in 1..Len(tasks) :
          /\ tasks[t].state \in {"queued", "sending", "done", "raised"}
          /\ tasks[t].state = "raised" => tasks[t].attempts = <<>>
          /\ tasks[t].state = "done" =>
                tasks[t].attempts[Len(tasks[t].attempts)].kind = "email"
    /\ (\E t \in 1..Len(tasks) : tasks[t].state \in {"queued", "sending"}) =>
          \E t \in 1..Len(tasks) :
              ENABLED (TaskStarts(t) \/ SendServerChan(t) \/ SendEmail(t))

\* main sleeps after a cycle in which the first task raised and the last
\* task, run by the only worker of the pool after it, sent its e-mail
C26_Witness ==
    /\ mpc = "sleeping"
    /\ workers = 1
    /\ Len(tasks) = MaxRooms
    /\ tasks[1].state = "raised"
    /\ tasks[MaxRooms].state = "done"

\* C27: under any interleaving of concurrent first calls to Logger() or
\* get_logger() exactly one instance is created and the body of __init__
\* runs exactly once, so that the logger never has duplicated handlers: in
\* every reachable state at most one object was created, the body of
\* __init__ was entered at most once, and no handler is there twice.
C27_OneInstanceOneInit ==
    /\ created <= 1
    /\ init_runs <= 1
    /\ \A i, j \in 1..Len(handlers) : i # j => handlers[i] # handlers[j]

\* C28: no thread observes a Logger that is not fully initialized: in every
\* reachable state a _instance that is not None has its _initialized
\* attribute, and what get_logger returned has its logger attribute.
C28_NeverHalfBuilt ==
    /\ instance # <<>> => instance[1].initialized # "absent"
    /\ \A th \in Threads :
          (called[th] = "get_logger" /\ lpc[th] = "returned") =>
              /\ returned[th] # <<>>
              /\ returned[th][1].logger

\* C29: in StatisticsReporter.run a room's last-report time is advanced only
\* after its report e-mail was sent, a failure for one room does not prevent
\* the later rooms of the same pass, and every due room with at least 2 data
\* points gets its report attempted: during a pass a room whose time is
\* recent had it in the file or had its e-mail sent in this pass, and when
\* the pass is over, by the hourly sleep or by an exception, send_email was
\* called for every due room with at least 2 data points, except for the
\* room whose own report raised before the send.
C29_EveryDueRoomAttempted ==
    /\ rpc \in {"room", "send", "failed", "sleep"} =>
          \A r \in 1..rooms :
              state[r] = "recent" => r \in attempted \/ state_file[r] = "recent"
    /\ rpc \in {"sleep", "failed"} =>
          \A r \in 1..rooms :
              (Due(state, r) /\ room_data[r] >= 2) =>
                  r \in attempted \/ (rpc = "failed" /\ r = room)

====
